---- MODULE Spec2Model ----
(***************************************************************************)
(* Model of the in-process message bus (src/event_bus.py), of the Message  *)
(* value it carries (src/message.py) and of the agents that send and       *)
(* receive through it (src/base_agent.py, src/transcriber_agent.py).       *)
(*                                                                         *)
(* Caller threads run subscribe / unsubscribe / publish / shutdown as      *)
(* sequences of steps, one step per access to the shared registry, history *)
(* or loop, so that the interleavings of unsynchronised callers are        *)
(* explored.  The asyncio loop and the ThreadPoolExecutor workers are      *)
(* separate actors.                                                        *)
(***************************************************************************)
EXTENDS Integers, Sequences, FiniteSets, TLC

\* ------------------------------------------------------------------ bounds
MaxSubs == 2          \* subscribe calls explored
MaxMsgs == 2          \* Message objects published
MaxHistorySize == 1   \* largest configured max_history_size explored
MaxWorkers == 1       \* configured max_workers of the executor, but for one specification
MaxLimit == 3         \* largest limit passed to get_recent_messages
MaxObjs == 3          \* Message objects constructed or derived
MaxTime == 2          \* how far the clock advances
MaxSends == 2         \* send_message calls that reach publish
MaxRecordings == 2    \* start_recording calls that find no recording under way
MaxChunks == 3        \* audio chunks the recognizer delivers to one recording

\* ------------------------------------------------------------------ values
Threads == {"t1", "t2"}
Callbacks == {"cbA", "cbB"}

\* the agents; an agent registers under its name as agent_id, and its
\* process_message is the callback it subscribes
Agents == {"agentA", "agentB"}

\* MessageType members the model distinguishes (two of the enumeration).
MessageType == {"AUDIO_CAPTURED", "SYSTEM_COMMAND"}

\* A registry key is any hashable: an enumeration member or a string (the
\* member's name).  MessageType is a plain Enum, so a member never equals
\* or hashes like its name.
MemberKey(k) == [form |-> "member", kind |-> k]
NameKey(k) == [form |-> "name", kind |-> k]
Keys == {MemberKey(k) : k \in MessageType} \cup {NameKey(k) : k \in MessageType}
NoKey == [form |-> "none", kind |-> "none"]

\* message.type: after __post_init__ it is always the enumeration member.
MessageTypeOf(m) == MemberKey(m.type)

NoMsg == [isMessage |-> FALSE, id |-> 0, type |-> "none"]
NotAMessage == [isMessage |-> FALSE, id |-> 0, type |-> "str"]
\* a Message as the bus sees it: its identity, its type, and the priority
\* and expiry (its time-to-live has run out) it was constructed with
NewMessage(n, k) == [isMessage |-> TRUE, id |-> n, type |-> k, priority |-> 0, expired |-> FALSE]
Plain == [priority |-> 0, expired |-> FALSE]
UrgentExpired == [priority |-> 1, expired |-> TRUE]
WithFlavour(m, f) == [m EXCEPT !.priority = f.priority, !.expired = f.expired]

UnknownId == 0

VARIABLES
    subscribers,        \* self.subscribers: key -> [present, items]
    message_history,    \* self.message_history
    max_history_size,   \* self.max_history_size
    max_workers,        \* max_workers of self.executor
    loop_state,         \* self.loop: "stopped" | "running" | "closed"
    loopQ,              \* coroutines scheduled on self.loop, not yet started
    executor_shutdown,  \* self.executor has been shut down
    execQ,              \* work items queued in self.executor
    running,            \* worker -> work item being executed (or idle)
    th,                 \* caller thread -> position and locals of its call
    callers,            \* the caller threads that exist
    named,              \* the registry keys the callers name in their calls
    strangers,          \* the ids no subscribe returned that callers pass to unsubscribe
    budget,             \* how many subscribe calls and Messages the callers make
    flavours,           \* the priority and expiry the callers give their Messages
    observed,           \* a call's result stays visible for one state (pc = "ret")
    nextSub,            \* subscription ids handed out so far + 1
    nextMsg,            \* messages constructed so far + 1
    calls,              \* history: <<sub id, msg id>> -> callback invocations started
    raised,             \* history: invocations whose callback raised
    atPublish,          \* history: msg id -> ids subscribed to its kind at lookup, by key form
    asked,              \* history: the sub ids unsubscribe has been called with
    removedAt,          \* history: sub id -> nextMsg when its unsubscribe returned True (0: never)
    closedAt,           \* history: nextMsg when shutdown returned (0: not yet)
    now,                \* time.time()
    nextUuid,           \* uuid4() values handed out to Messages so far + 1
    objs,               \* the Message objects constructed, by address
    dicts,              \* the dict objects (payloads, metadata), by address
    last,               \* the last operation on a Message: arguments, result, heap before
    agent,              \* agent -> its event_bus (set or None) and agent_id
    heap,               \* message id -> the type and the sender field of that Message object
    handled,            \* history: the handle_message calls: agent, message, sender seen
    sent,               \* history: the publish calls of send_message, in order
    is_recording,       \* TranscriberAgent.is_recording
    current_recording,  \* TranscriberAgent.current_recording (None or the dict)
    rt,                 \* worker thread -> position in start_recording / stop_recording
    recHist             \* history: recordings begun, resets by stop_recording, late accesses

vars == <<subscribers, message_history, max_history_size, max_workers, loop_state, loopQ,
          executor_shutdown, execQ, running, th, callers, named, strangers, budget, flavours, observed,
          nextSub, nextMsg, calls, raised, atPublish, asked, removedAt, closedAt,
          now, nextUuid, objs, dicts, last, agent, heap, handled, sent,
          is_recording, current_recording, rt, recHist>>

poolVars == <<loop_state, loopQ, executor_shutdown, execQ, running>>
countVars == <<nextSub, nextMsg>>
envVars == <<callers, named, strangers, budget, flavours, observed, max_history_size, max_workers>>
histVars == <<calls, raised, atPublish, asked, removedAt, closedAt>>
agentVars == <<agent, heap, handled, sent>>
recVars == <<is_recording, current_recording, rt, recHist>>
msgVars == <<now, nextUuid, objs, dicts, last, agentVars>>
busVars == <<subscribers, message_history, poolVars, th, envVars, countVars, histVars, agentVars,
            recVars>>

\* the ids subscribe can hand out under the budgets of the specifications
SubIds == 1..(2 * MaxSubs + 1)
MsgIds == 1..(MaxMsgs + 1)
\* the threads that could run callbacks; the executor spawns max_workers of them
Workers == 1..(MaxWorkers + 1)

NoItem == [sub |-> 0, cb |-> "none", msg |-> NoMsg, blocked |-> FALSE]
Item(e, m) == [sub |-> e.id, cb |-> e.cb, msg |-> m, blocked |-> FALSE]

Absent == [present |-> FALSE, items |-> <<>>]
ListOf(items) == [present |-> TRUE, items |-> items]

\* defaultdict(list) with no key
EmptyRegistry == [k \in Keys |-> Absent]

\* position and locals of a caller thread.  L is its reference to a list
\* object: "live" is the list the registry holds for key, "own" a list the
\* registry has dropped since (its content is orphan).  At pc = "ret" its
\* call has just returned val (or raised it); op, sid, msg are the call's,
\* before is the registry as it was when subscribe or unsubscribe was called, out is
\* what get_recent_messages(limit) returned, snap the ids in the list
\* when publish began to iterate it, agent the agent whose register or
\* send_message is called, prior the sender the message had at that call.
IdleLoc == [pc |-> "idle", op |-> "none", val |-> "none", key |-> NoKey, sid |-> 0,
            cb |-> "none", msg |-> NoMsg, L |-> "none", orphan |-> <<>>, new |-> <<>>,
            n |-> 0, i |-> 0, ok |-> FALSE, again |-> FALSE, before |-> EmptyRegistry,
            limit |-> 0, out |-> <<>>, snap |-> {}, agent |-> "none", prior |-> <<>>]
Result(op, val, l) ==
    IF observed
    THEN [IdleLoc EXCEPT !.pc = "ret", !.op = op, !.val = val, !.sid = l.sid,
                         !.cb = l.cb, !.msg = l.msg, !.again = l.again, !.key = l.key,
                         !.before = l.before, !.limit = l.limit, !.out = l.out,
                         !.agent = l.agent, !.prior = l.prior]
    ELSE IdleLoc

\* ------------------------------------------------------ defaultdict(list)

\* key in self.subscribers
Contains(subs, key) == subs[key].present

\* self.subscribers[key]: a missing key is inserted with a new empty list
GetItem(subs, key) == IF subs[key].present THEN subs ELSE [subs EXCEPT ![key] = ListOf(<<>>)]

\* The registry drops the list object it holds for key (rebinding or
\* deleting the key): a caller that still refers to that object keeps it,
\* with the content it has.  Two callers never share a dropped list: of two
\* callers one is the caller that drops it, and that caller holds no
\* reference at that point.
Orphaned(thr, subs, key) ==
    [u \in Threads |->
        IF thr[u].L = "live" /\ thr[u].key = key
        THEN [thr[u] EXCEPT !.L = "own", !.orphan = subs[key].items]
        ELSE thr[u]]

\* the content of the list object caller t refers to
Deref(t) == IF th[t].L = "live" THEN subscribers[th[t].key].items ELSE th[t].orphan

\* variant: the entry is dropped together with every entry added after it
FilterOutFrom(lst, sid) ==
    LET at == {j \in 1..Len(lst) : lst[j].id = sid} IN
    IF at = {} THEN lst
    ELSE SubSeq(lst, 1, (CHOOSE j \in at : \A i \in at : j <= i) - 1)

RECURSIVE FilterOut(_, _)
\* [(sub_id, callback) for ... in lst if sub_id != subscription_id]
FilterOut(lst, sid) ==
    IF lst = <<>> THEN <<>>
    ELSE IF Head(lst).id # sid
         THEN <<Head(lst)>> \o FilterOut(Tail(lst), sid)
         ELSE FilterOut(Tail(lst), sid)

\* ids registered under key in the registry
IdsUnder(key) ==
    {subscribers[key].items[j].id : j \in 1..Len(subscribers[key].items)}

NoSubs == [member |-> {}, name |-> {}]

\* The members of MessageType are interchangeable: the first kind a
\* subscription or a Message names is called AUDIO_CAPTURED.
FirstKind(k) == (nextSub = 1 /\ nextMsg = 1) => k = "AUDIO_CAPTURED"

\* likewise for the first Message constructed
FirstType(a) == (objs = <<>> /\ a.kind \in MessageType) => a.kind = "AUDIO_CAPTURED"

\* ---------------------------------------------------------- Message values
\* Optional[...] fields: None, or a value
None == <<>>
Some(x) == <<x>>

\* something passed as a type that is no member and no string
NotAName == [form |-> "other", kind |-> "7"]

\* what a caller passes as the type of a Message: a member, a name, a
\* string that names no member, or something else
TypeArgs == {MemberKey(k) : k \in MessageType} \cup {NameKey(k) : k \in MessageType}
            \cup {NameKey("BOGUS"), NotAName}

\* the payloads callers build, and the keyword arguments of with_content
Payloads == {<<>>, ("a" :> 0 @@ "b" :> 2)}
Updates == {<<>>, ("a" :> 1), ("c" :> 1)}

\* BaseAgent.__init__, lines 46-47: event_bus and agent_id are None
Unregistered == [event_bus |-> FALSE, agent_id |-> None]

\* no Message object at this address
NoFields == [type |-> "none", sender |-> None]

\* what a producer puts in the sender field of the Message it constructs
Senders == {None} \cup {Some(a) : a \in Agents}

\* TranscriberAgent.get_subscribed_events: names of members
SubscribedEvents == <<NameKey("AUDIO_CAPTURED"), NameKey("SYSTEM_COMMAND")>>

\* the worker threads of the executor that run the transcriber's handlers
RecThreads == {"r1", "r2", "r3"}

\* current_recording = None (TranscriberAgent.__init__, line 71)
NoRecording == [set |-> FALSE, meeting |-> 0, audio_chunks |-> 0, audio_file |-> FALSE]

\* a worker thread that runs no handler of the transcriber
RecIdle == [pc |-> "idle", op |-> "none", val |-> "none", seen |-> 0]

\* no operation on a Message yet
NoOp == [op |-> "none", val |-> "none", src |-> 0, dst |-> 0, arg |-> NoKey,
         upd |-> <<>>, payload |-> <<>>, data |-> <<>>, at |-> 0,
         preObjs |-> <<>>, preDicts |-> <<>>]

\* ------------------------------------------------------------------- Init
\* EventBus.__init__
Init ==
    /\ subscribers = EmptyRegistry
    /\ message_history = <<>>
    /\ loop_state = "stopped"
    /\ loopQ = <<>>
    /\ executor_shutdown = FALSE
    /\ execQ = <<>>
    /\ running = [w \in Workers |-> NoItem]
    /\ th = [t \in Threads |-> IdleLoc]
    /\ nextSub = 1
    /\ nextMsg = 1
    /\ calls = [p \in SubIds \X MsgIds |-> 0]
    /\ raised = {}
    /\ atPublish = [m \in MsgIds |-> NoSubs]
    /\ asked = {}
    /\ removedAt = [s \in SubIds |-> 0]
    /\ closedAt = 0
    /\ now = 0
    /\ nextUuid = 1
    /\ objs = <<>>
    /\ dicts = <<>>
    /\ last = NoOp
    /\ agent = [a \in Agents |-> Unregistered]
    /\ heap = [n \in MsgIds |-> NoFields]
    /\ handled = {}
    /\ is_recording = FALSE
    /\ current_recording = NoRecording
    /\ rt = [t \in RecThreads |-> RecIdle]
    /\ recHist = [begun |-> 0, resets |-> 0, late |-> FALSE]
    /\ sent = <<>>

\* one caller at a time, naming any key, under any history capacity
InitSeq ==
    /\ Init
    /\ max_history_size \in 0..MaxHistorySize
    /\ callers = {"t1"}
    /\ named = Keys
    /\ strangers = {UnknownId}
    /\ budget = [subs |-> MaxSubs, msgs |-> MaxMsgs]
    /\ flavours = {Plain}
    /\ max_workers = MaxWorkers
    /\ observed = TRUE

\* one producer publishing one Message more into a history of up to one
\* entry more, with one subscription less
InitHistory ==
    /\ Init
    /\ max_history_size \in 0..(MaxHistorySize + 1)
    /\ callers = {"t1"}
    /\ named = {MemberKey("AUDIO_CAPTURED")}
    /\ strangers = {}
    /\ budget = [subs |-> MaxSubs - 1, msgs |-> MaxMsgs + 1]
    /\ flavours = {Plain}
    /\ max_workers = MaxWorkers
    /\ observed = TRUE

\* one caller that subscribes once more, to two kinds, and publishes nothing
InitRegistry ==
    /\ Init
    /\ max_history_size = MaxHistorySize
    /\ callers = {"t1"}
    /\ named = {MemberKey(k) : k \in MessageType}
    /\ strangers = {}
    /\ budget = [subs |-> MaxSubs + 1, msgs |-> 0]
    /\ flavours = {Plain}
    /\ max_workers = MaxWorkers
    /\ observed = TRUE

\* one producer of Messages of any priority and expiry, of a kind with a
\* subscriber or of a kind with none, and an executor of one worker more
InitDelivery ==
    /\ Init
    /\ max_history_size \in 0..(MaxHistorySize + 1)
    /\ callers = {"t1"}
    /\ named = {MemberKey(k) : k \in MessageType}
    /\ strangers = {}
    /\ budget = [subs |-> MaxSubs - 1, msgs |-> MaxMsgs]
    /\ flavours = {Plain, UrgentExpired}
    /\ max_workers = MaxWorkers + 1
    /\ observed = TRUE

\* two agents, one thread that calls them, producers of Messages of one kind
InitAgents ==
    /\ Init
    /\ max_history_size = MaxHistorySize
    /\ callers = {"t1"}
    /\ named = {MemberKey("AUDIO_CAPTURED")}
    /\ strangers = {}
    /\ budget = [subs |-> 2 * MaxSubs + 1, msgs |-> MaxMsgs - 1]
    /\ flavours = {Plain}
    /\ max_workers = MaxWorkers
    /\ observed = TRUE

\* no caller of the bus: Message values only
InitMessage ==
    /\ Init
    /\ max_history_size = MaxHistorySize
    /\ callers = {}
    /\ named = {}
    /\ strangers = {}
    /\ budget = [subs |-> 0, msgs |-> 0]
    /\ flavours = {Plain}
    /\ max_workers = MaxWorkers
    /\ observed = FALSE

\* two unsynchronised callers contending for the list of one key, around
\* one publish
InitConc ==
    /\ Init
    /\ max_history_size \in 0..MaxHistorySize
    /\ callers = Threads
    /\ named = {MemberKey("AUDIO_CAPTURED")}
    /\ strangers = {}
    /\ budget = [subs |-> MaxSubs, msgs |-> MaxMsgs - 1]
    /\ flavours = {Plain}
    /\ max_workers = MaxWorkers
    /\ observed = FALSE

\* two unsynchronised producers of one kind, with one subscription less
InitProducers ==
    /\ Init
    /\ max_history_size \in 0..MaxHistorySize
    /\ callers = Threads
    /\ named = {MemberKey("AUDIO_CAPTURED")}
    /\ strangers = {}
    /\ budget = [subs |-> MaxSubs - 1, msgs |-> MaxMsgs]
    /\ flavours = {Plain}
    /\ max_workers = MaxWorkers
    /\ observed = FALSE

Return(t, op, val) == th' = [th EXCEPT ![t] = Result(op, val, th[t])]

Goto(t, l) == th' = [th EXCEPT ![t] = l]

\* the caller goes on after a call has returned or raised
Resume(t) ==
    /\ th[t].pc = "ret"
    /\ th' = [th EXCEPT ![t] = IdleLoc]
    /\ UNCHANGED <<subscribers, message_history, poolVars, envVars, recVars, msgVars, countVars, histVars>>

\* -------------------------------------------------------------- subscribe
\* subscribe, line 62 and the lookup of line 63: uuid4(), self.subscribers[event_type]
\* (callbacks are interchangeable: the first subscription's is called cbA)
SubscribeCall(t, key, cb) ==
    /\ th[t].pc = "idle"
    /\ nextSub <= budget.subs
    /\ nextSub = 1 => cb = "cbA"
    /\ FirstKind(key.kind)
    /\ subscribers' = GetItem(subscribers, key)
    /\ Goto(t, [IdleLoc EXCEPT !.pc = "sub_append", !.key = key, !.cb = cb,
                               !.sid = nextSub, !.L = "live",
                               !.before = IF observed THEN subscribers ELSE EmptyRegistry])
    /\ nextSub' = nextSub + 1
    /\ UNCHANGED <<message_history, poolVars, envVars, recVars, msgVars, nextMsg, histVars>>

\* variant: a callback the kind's list already holds is not added again
SubscribeAppendOnce(t) ==
    /\ th[t].pc = "sub_append"
    /\ subscribers' = IF th[t].L = "live"
                         /\ \A j \in 1..Len(subscribers[th[t].key].items) :
                                subscribers[th[t].key].items[j].cb # th[t].cb
                      THEN [subscribers EXCEPT ![th[t].key].items =
                                Append(@, [id |-> th[t].sid, cb |-> th[t].cb])]
                      ELSE subscribers
    /\ Return(t, "subscribe", "id")
    /\ UNCHANGED <<message_history, poolVars, envVars, recVars, msgVars, countVars, histVars>>

\* subscribe, line 63 .append(...) and the return of line 65
SubscribeAppend(t) ==
    /\ th[t].pc = "sub_append"
    /\ subscribers' = IF th[t].L = "live"
                      THEN [subscribers EXCEPT ![th[t].key].items =
                                Append(@, [id |-> th[t].sid, cb |-> th[t].cb])]
                      ELSE subscribers
    /\ Return(t, "subscribe", "id")
    /\ UNCHANGED <<message_history, poolVars, envVars, recVars, msgVars, countVars, histVars>>

\* ------------------------------------------------------------ unsubscribe
\* the ids subscribe has returned to its caller (line 65)
Returned == {s \in 1..(nextSub - 1) : \A u \in callers : ~(th[u].pc = "sub_append" /\ th[u].sid = s)}

\* unsubscribe, lines 78-79: if event_type not in self.subscribers: return False
UnsubscribeCall(t, key, sid) ==
    /\ th[t].pc = "idle"
    /\ sid \in Returned \cup strangers
    /\ LET l == [IdleLoc EXCEPT !.pc = "unsub_len", !.key = key, !.sid = sid,
                               !.again = (observed /\ sid # UnknownId /\ removedAt[sid] # 0),
                               !.before = IF observed THEN subscribers ELSE EmptyRegistry] IN
        IF Contains(subscribers, key)
        THEN Goto(t, l)
        ELSE th' = [th EXCEPT ![t] = Result("unsubscribe", "False", l)]
    /\ asked' = asked \cup ({sid} \ strangers)
    /\ UNCHANGED <<subscribers, message_history, poolVars, envVars, recVars, msgVars, countVars, calls, raised,
                   atPublish, removedAt, closedAt>>

\* unsubscribe, line 81: initial_length = len(self.subscribers[event_type])
UnsubLen(t) ==
    /\ th[t].pc = "unsub_len"
    /\ subscribers' = GetItem(subscribers, th[t].key)
    /\ Goto(t, [th[t] EXCEPT !.pc = "unsub_fetch", !.n = Len(subscribers[th[t].key].items)])
    /\ UNCHANGED <<message_history, poolVars, envVars, recVars, msgVars, countVars, histVars>>

\* unsubscribe, line 84: the comprehension evaluates self.subscribers[event_type]
UnsubFetch(t) ==
    /\ th[t].pc = "unsub_fetch"
    /\ subscribers' = GetItem(subscribers, th[t].key)
    /\ Goto(t, [th[t] EXCEPT !.pc = "unsub_filter", !.L = "live"])
    /\ UNCHANGED <<message_history, poolVars, envVars, recVars, msgVars, countVars, histVars>>

\* unsubscribe, lines 82-86: the comprehension runs to the end of the list
\* object (lists only grow in place, so what it has read is the content
\* at the moment it ends)
UnsubFilter(t) ==
    /\ th[t].pc = "unsub_filter"
    /\ Goto(t, [th[t] EXCEPT !.pc = "unsub_store", !.L = "none", !.orphan = <<>>,
                             !.new = FilterOut(Deref(t), th[t].sid)])
    /\ UNCHANGED <<subscribers, message_history, poolVars, envVars, recVars, msgVars, countVars, histVars>>

\* unsubscribe, line 82: self.subscribers[event_type] = <the new list>
UnsubStore(t) ==
    /\ th[t].pc = "unsub_store"
    /\ subscribers' = [subscribers EXCEPT ![th[t].key] = ListOf(th[t].new)]
    /\ th' = [Orphaned(th, subscribers, th[t].key) EXCEPT
                 ![t] = [th[t] EXCEPT !.pc = "unsub_success", !.new = <<>>]]
    /\ UNCHANGED <<message_history, poolVars, envVars, recVars, msgVars, countVars, histVars>>

\* variant: a list that is no shorter counts as a removal
ShorterOrEqual(len, initial_length) == len <= initial_length

\* unsubscribe, line 88: len(...) < initial_length
Shorter(len, initial_length) == len < initial_length

\* unsubscribe, line 88: success = len(self.subscribers[event_type]) < initial_length
UnsubSuccess(t) ==
    /\ th[t].pc = "unsub_success"
    /\ subscribers' = GetItem(subscribers, th[t].key)
    /\ Goto(t, [th[t] EXCEPT !.pc = "unsub_empty", !.n = 0,
                             !.ok = Shorter(Len(subscribers[th[t].key].items), th[t].n)])
    /\ UNCHANGED <<message_history, poolVars, envVars, recVars, msgVars, countVars, histVars>>

\* the return of line 96, with the bookkeeping of a successful removal
UnsubReturn(t, thr) ==
    /\ th' = [thr EXCEPT ![t] =
                 Result("unsubscribe", IF th[t].ok THEN "True" ELSE "False", th[t])]
    /\ removedAt' = IF th[t].ok /\ th[t].sid # UnknownId /\ removedAt[th[t].sid] = 0
                    THEN [removedAt EXCEPT ![th[t].sid] = nextMsg]
                    ELSE removedAt

\* variant: the kind's entry is deleted whether or not its list is empty
UnsubEmptyAlways(t) ==
    /\ th[t].pc = "unsub_empty"
    /\ subscribers' = GetItem(subscribers, th[t].key)
    /\ Goto(t, [th[t] EXCEPT !.pc = "unsub_del"]) /\ UNCHANGED removedAt
    /\ UNCHANGED <<message_history, poolVars, envVars, recVars, msgVars, countVars, calls, raised,
                   atPublish, asked, closedAt>>

\* unsubscribe, line 93: if not self.subscribers[event_type]
UnsubEmpty(t) ==
    /\ th[t].pc = "unsub_empty"
    /\ subscribers' = GetItem(subscribers, th[t].key)
    /\ IF subscribers[th[t].key].items = <<>>
       THEN Goto(t, [th[t] EXCEPT !.pc = "unsub_del"]) /\ UNCHANGED removedAt
       ELSE UnsubReturn(t, th)
    /\ UNCHANGED <<message_history, poolVars, envVars, recVars, msgVars, countVars, calls, raised,
                   atPublish, asked, closedAt>>

\* unsubscribe, line 94: del self.subscribers[event_type] (KeyError when the
\* key is gone), then the return of line 96
UnsubDel(t) ==
    /\ th[t].pc = "unsub_del"
    /\ IF Contains(subscribers, th[t].key)
       THEN /\ subscribers' = [subscribers EXCEPT ![th[t].key] = Absent]
            /\ UnsubReturn(t, Orphaned(th, subscribers, th[t].key))
       ELSE /\ Return(t, "unsubscribe", "KeyError")
            /\ UNCHANGED <<subscribers, removedAt>>
    /\ UNCHANGED <<message_history, poolVars, envVars, recVars, msgVars, countVars, calls, raised,
                   atPublish, asked, closedAt>>

\* ---------------------------------------------------------------- publish
\* what publish is called with: a newly constructed Message, or something
\* that is no Message
PublishArgs ==
    {WithFlavour(NewMessage(nextMsg, key.kind), f) : key \in named, f \in flavours}
    \cup {NotAMessage}

\* publish, line 110: len(self.message_history) >= self.max_history_size
Full(h, n) == Len(h) >= n

\* variant: the newest entry is evicted, pop() in place of pop(0)
EvictNewest(h) == SubSeq(h, 1, Len(h) - 1)

\* publish, line 111: self.message_history.pop(0)
Evict(h) == Tail(h)

\* variant: a message of raised priority is put in front of the others
RecordByPriority(h, m) == IF m.priority > 0 THEN <<m>> \o h ELSE Append(h, m)

\* publish, line 112: self.message_history.append(message)
Record(h, m) == Append(h, m)

\* publish, lines 105-110: the isinstance test and the test of the history length
PublishCall(t, arg) ==
    /\ th[t].pc = "idle"
    /\ nextMsg <= budget.msgs
    /\ arg \in PublishArgs
    /\ arg.isMessage => FirstKind(arg.type)
    /\ IF ~arg.isMessage
       THEN /\ th' = [th EXCEPT ![t] = Result("publish", "None", [IdleLoc EXCEPT !.msg = arg])]
            /\ UNCHANGED nextMsg
       ELSE /\ Goto(t, [IdleLoc EXCEPT !.msg = arg,
                            !.pc = IF Full(message_history, max_history_size)
                                   THEN "pub_pop" ELSE "pub_append"])
            /\ nextMsg' = nextMsg + 1
    /\ UNCHANGED <<subscribers, message_history, poolVars, envVars, recVars, msgVars, nextSub, histVars>>

\* publish, line 111: self.message_history.pop(0) (IndexError on an empty list)
PubPop(t) ==
    /\ th[t].pc = "pub_pop"
    /\ IF message_history = <<>>
       THEN Return(t, "publish", "IndexError") /\ UNCHANGED message_history
       ELSE /\ message_history' = Evict(message_history)
            /\ Goto(t, [th[t] EXCEPT !.pc = "pub_append"])
    /\ UNCHANGED <<subscribers, poolVars, envVars, recVars, msgVars, countVars, histVars>>

\* publish, line 112: self.message_history.append(message)
PubAppend(t) ==
    /\ th[t].pc = "pub_append"
    /\ message_history' = Record(message_history, th[t].msg)
    /\ Goto(t, [th[t] EXCEPT !.pc = "pub_lookup", !.key = MessageTypeOf(th[t].msg)])
    /\ UNCHANGED <<subscribers, poolVars, envVars, recVars, msgVars, countVars, histVars>>

\* publish, lines 115-118: if event_type not in self.subscribers: return
PubLookup(t) ==
    /\ th[t].pc = "pub_lookup"
    /\ atPublish' = [atPublish EXCEPT ![th[t].msg.id] =
                        [member |-> IdsUnder(MemberKey(th[t].msg.type)),
                         name |-> IdsUnder(NameKey(th[t].msg.type))]]
    /\ IF Contains(subscribers, th[t].key)
       THEN Goto(t, [th[t] EXCEPT !.pc = "pub_count"])
       ELSE Return(t, "publish", "None")
    /\ UNCHANGED <<subscribers, message_history, poolVars, envVars, recVars, msgVars, countVars, calls,
                   raised, asked, removedAt, closedAt>>

\* publish, line 120: subscriber_count = len(self.subscribers[event_type])
PubCount(t) ==
    /\ th[t].pc = "pub_count"
    /\ subscribers' = GetItem(subscribers, th[t].key)
    /\ Goto(t, [th[t] EXCEPT !.pc = "pub_fetch"])
    /\ UNCHANGED <<message_history, poolVars, envVars, recVars, msgVars, countVars, histVars>>

\* publish, line 124: the for statement evaluates self.subscribers[event_type]
PubFetch(t) ==
    /\ th[t].pc = "pub_fetch"
    /\ subscribers' = GetItem(subscribers, th[t].key)
    /\ Goto(t, [th[t] EXCEPT !.pc = "pub_loop", !.L = "live", !.i = 1,
                             !.snap = IdsUnder(th[t].key)])
    /\ UNCHANGED <<message_history, poolVars, envVars, recVars, msgVars, countVars, histVars>>

\* variant: the loop takes up the coroutine scheduled last first
ScheduleFirst(q, e, m) == <<Item(e, m)>> \o q

\* run_coroutine_threadsafe(self._async_call_subscriber(callback, message),
\* self.loop) for entry e: the coroutine is scheduled on the loop
Schedule(q, e, m) == Append(q, Item(e, m))

\* the invocations of message id m that are scheduled or queued, not yet started
Pending(m) ==
    {j \in 1..Len(loopQ) : loopQ[j].msg.id = m} \cup
    {Len(loopQ) + j : j \in {x \in 1..Len(execQ) : execQ[x].msg.id = m}}

\* variant: publish waits for the result of each invocation it has scheduled
\* before it goes on (future.result() after run_coroutine_threadsafe)
PubLoopWaits(t) ==
    /\ th[t].pc = "pub_loop"
    /\ Pending(th[t].msg.id) = {}
    /\ \A w \in DOMAIN running : running[w].msg.id # th[t].msg.id
    /\ IF th[t].i > Len(Deref(t))
       THEN Return(t, "publish", "None") /\ UNCHANGED loopQ
       ELSE IF loop_state = "closed"
            THEN Return(t, "publish", "RuntimeError") /\ UNCHANGED loopQ
            ELSE /\ loopQ' = Schedule(loopQ, Deref(t)[th[t].i], th[t].msg)
                 /\ Goto(t, [th[t] EXCEPT !.i = @ + 1])
    /\ UNCHANGED <<subscribers, message_history, loop_state, executor_shutdown, execQ,
                   running, envVars, recVars, msgVars, countVars, histVars>>

\* publish, lines 124-128: one turn of the for loop over the list object;
\* run_coroutine_threadsafe raises RuntimeError on a closed loop
PubLoop(t) ==
    /\ th[t].pc = "pub_loop"
    /\ IF th[t].i > Len(Deref(t))
       THEN Return(t, "publish", "None") /\ UNCHANGED loopQ
       ELSE IF loop_state = "closed"
            THEN Return(t, "publish", "RuntimeError") /\ UNCHANGED loopQ
            ELSE /\ loopQ' = Schedule(loopQ, Deref(t)[th[t].i], th[t].msg)
                 /\ Goto(t, [th[t] EXCEPT !.i = @ + 1])
    /\ UNCHANGED <<subscribers, message_history, loop_state, executor_shutdown, execQ,
                   running, envVars, recVars, msgVars, countVars, histVars>>

\* ---------------------------------------------------- get_recent_messages
\* lst[start:] as Python slices a list: a negative start counts from the
\* end, and the start is clamped to 0..len(lst)
SliceFrom(lst, start) ==
    LET len == Len(lst)
        from == IF start < 0
                THEN (IF len + start < 0 THEN 0 ELSE len + start)
                ELSE (IF start > len THEN len ELSE start)
    IN SubSeq(lst, from + 1, len)

\* get_recent_messages, line 157:
\* self.message_history[-limit:] if self.message_history else []
GetRecent(h, limit) == IF h # <<>> THEN SliceFrom(h, 0 - limit) ELSE <<>>

\* get_recent_messages(limit)
GetRecentMessages(t, limit) ==
    /\ th[t].pc = "idle"
    /\ observed
    /\ th' = [th EXCEPT ![t] = Result("get_recent_messages", "list",
                  [IdleLoc EXCEPT !.limit = limit, !.out = GetRecent(message_history, limit)])]
    /\ UNCHANGED <<subscribers, message_history, poolVars, envVars, recVars, msgVars, countVars, histVars>>

\* --------------------------------------------------------------- dispatch
\* the thread that owns self.loop starts running it (run_forever)
RunLoop ==
    /\ loop_state = "stopped"
    /\ loop_state' = "running"
    /\ UNCHANGED <<subscribers, message_history, loopQ, executor_shutdown, execQ,
                   running, th, envVars, recVars, msgVars, countVars, histVars>>

\* the thread that owns self.loop stops it
StopLoop ==
    /\ loop_state = "running"
    /\ loop_state' = "stopped"
    /\ UNCHANGED <<subscribers, message_history, loopQ, executor_shutdown, execQ,
                   running, th, envVars, recVars, msgVars, countVars, histVars>>

\* _async_call_subscriber up to its await: run_in_executor submits the call
\* to the executor; after executor.shutdown submit raises RuntimeError,
\* which line 144 catches
LoopStep ==
    /\ loop_state = "running"
    /\ loopQ # <<>>
    /\ loopQ' = Tail(loopQ)
    /\ execQ' = IF executor_shutdown THEN execQ ELSE Append(execQ, Head(loopQ))
    /\ UNCHANGED <<subscribers, message_history, loop_state, executor_shutdown,
                   running, th, envVars, recVars, msgVars, countVars, histVars>>

\* the workers executing a callback
Busy == {w \in Workers : running[w] # NoItem}

\* variant: a thread is spawned for every callback that finds none idle
IdleThreads == {w \in Workers : running[w] = NoItem}

\* ThreadPoolExecutor(max_workers=...), lines 37-39: the idle ones of its workers
IdleWorkers == {w \in Workers : w <= max_workers /\ running[w] = NoItem}

\* BaseAgent.process_message, lines 92-99: a message whose sender is the
\* agent's own id is dropped, any other goes to handle_message
ProcessMessage(a, msg) ==
    IF heap[msg.id].sender = agent[a].agent_id
    THEN handled
    ELSE handled \cup {[agent |-> a, msg |-> msg.id, sender |-> heap[msg.id].sender]}

\* a worker thread of the executor takes the oldest work item and calls
\* callback(message) (the workers are interchangeable: the idle worker of
\* lowest number takes it)
WorkerStart ==
    /\ execQ # <<>>
    /\ IdleWorkers # {}
    /\ LET w == CHOOSE w \in IdleWorkers : \A v \in IdleWorkers : w <= v
           it == Head(execQ) IN
        /\ running' = [running EXCEPT ![w] = it]
        /\ calls' = [calls EXCEPT ![<<it.sub, it.msg.id>>] = @ + 1]
        /\ handled' = IF it.cb \in Agents THEN ProcessMessage(it.cb, it.msg) ELSE handled
    /\ execQ' = Tail(execQ)
    /\ UNCHANGED <<subscribers, message_history, loop_state, loopQ, executor_shutdown,
                   th, envVars, recVars, now, nextUuid, objs, dicts, last, agent, heap, sent,
                   countVars, raised, atPublish, asked, removedAt, closedAt>>

\* the callback returns
WorkerReturn(w) ==
    /\ running[w] # NoItem
    /\ ~running[w].blocked
    /\ running' = [running EXCEPT ![w] = NoItem]
    /\ UNCHANGED <<subscribers, message_history, loop_state, loopQ, executor_shutdown,
                   execQ, th, envVars, recVars, msgVars, countVars, histVars>>

\* variant: a raising callback takes the queued invocations down with it
WorkerRaiseStopsPool(w) ==
    /\ running[w] # NoItem
    /\ ~running[w].blocked
    /\ running' = [running EXCEPT ![w] = NoItem]
    /\ raised' = raised \cup {<<running[w].sub, running[w].msg.id>>}
    /\ execQ' = <<>>
    /\ UNCHANGED <<subscribers, message_history, loop_state, loopQ, executor_shutdown,
                   th, envVars, recVars, msgVars, countVars, calls, atPublish, asked, removedAt, closedAt>>

\* the callback raises: the future carries the exception to the coroutine,
\* where line 144 catches and logs it
WorkerRaise(w) ==
    /\ running[w] # NoItem
    /\ ~running[w].blocked
    /\ running' = [running EXCEPT ![w] = NoItem]
    /\ raised' = raised \cup {<<running[w].sub, running[w].msg.id>>}
    /\ UNCHANGED <<subscribers, message_history, loop_state, loopQ, executor_shutdown,
                   execQ, th, envVars, recVars, msgVars, countVars, calls, atPublish, asked, removedAt, closedAt>>

\* the callback blocks and never returns
WorkerBlock(w) ==
    /\ running[w] # NoItem
    /\ ~running[w].blocked
    /\ running' = [running EXCEPT ![w].blocked = TRUE]
    /\ UNCHANGED <<subscribers, message_history, loop_state, loopQ, executor_shutdown,
                   execQ, th, envVars, recVars, msgVars, countVars, histVars>>

\* --------------------------------------------------------------- shutdown
\* shutdown, line 162: executor.shutdown(wait=True) refuses new work ...
ShutdownCall(t) ==
    /\ th[t].pc = "idle"
    /\ executor_shutdown' = TRUE
    /\ Goto(t, [IdleLoc EXCEPT !.pc = "sd_join"])
    /\ UNCHANGED <<subscribers, message_history, loop_state, loopQ, execQ, running,
                   envVars, recVars, msgVars, countVars, histVars>>

\* variant: shutdown(wait=False), the workers are not joined
ShutdownJoinNoWait(t) ==
    /\ th[t].pc = "sd_join"
    /\ Goto(t, [th[t] EXCEPT !.pc = "sd_close"])
    /\ UNCHANGED <<subscribers, message_history, poolVars, envVars, recVars, msgVars, countVars, histVars>>

\* ... and joins the workers, which first run every queued work item
ShutdownJoin(t) ==
    /\ th[t].pc = "sd_join"
    /\ execQ = <<>>
    /\ Busy = {}
    /\ Goto(t, [th[t] EXCEPT !.pc = "sd_close"])
    /\ UNCHANGED <<subscribers, message_history, poolVars, envVars, recVars, msgVars, countVars, histVars>>

\* shutdown, lines 165-169: cancel the loop's tasks and close the loop
\* (RuntimeError when the loop is running); closing discards what is
\* scheduled on it
ShutdownClose(t) ==
    /\ th[t].pc = "sd_close"
    /\ IF loop_state = "running"
       THEN /\ Return(t, "shutdown", "RuntimeError")
            /\ UNCHANGED <<loop_state, loopQ, closedAt>>
       ELSE /\ Return(t, "shutdown", "None")
            /\ loop_state' = "closed"
            /\ loopQ' = <<>>
            /\ closedAt' = IF closedAt = 0 THEN nextMsg ELSE closedAt
    /\ UNCHANGED <<subscribers, message_history, executor_shutdown, execQ, running,
                   envVars, recVars, msgVars, countVars, calls, raised, atPublish, asked, removedAt>>

\* ----------------------------------------------------------------- agents
\* The agents are interchangeable: the first to register is called agentA.
FirstAgent(a) == (\A b \in Agents : ~agent[b].event_bus) => a = "agentA"

\* BaseAgent.register(event_bus, agent_id), lines 59-66: one subscribe of
\* process_message for each name of get_subscribed_events
Register(t, a) ==
    /\ th[t].pc = "idle"
    /\ ~agent[a].event_bus
    /\ FirstAgent(a)
    /\ nextSub + Len(SubscribedEvents) - 1 <= budget.subs
    /\ agent' = [agent EXCEPT ![a] = [event_bus |-> TRUE, agent_id |-> Some(a)]]
    /\ subscribers' =
           [k \in Keys |->
               LET at == {j \in 1..Len(SubscribedEvents) : SubscribedEvents[j] = k} IN
               IF at = {} THEN subscribers[k]
               ELSE ListOf(subscribers[k].items \o
                           <<[id |-> nextSub + (CHOOSE j \in at : TRUE) - 1, cb |-> a]>>)]
    /\ nextSub' = nextSub + Len(SubscribedEvents)
    /\ th' = [th EXCEPT ![t] = Result("register", "None", [IdleLoc EXCEPT !.agent = a])]
    /\ UNCHANGED <<message_history, poolVars, envVars, recVars, now, nextUuid, objs, dicts, last,
                   heap, handled, sent, nextMsg, histVars>>

\* a producer constructs a Message of kind k with sender given
MakeMessage(k, given) ==
    /\ nextMsg <= budget.msgs
    /\ MemberKey(k) \in named
    /\ FirstKind(k)
    /\ heap' = [heap EXCEPT ![nextMsg] = [type |-> k, sender |-> given]]
    /\ nextMsg' = nextMsg + 1
    /\ UNCHANGED <<subscribers, message_history, poolVars, th, envVars, recVars, now, nextUuid, objs,
                   dicts, last, agent, handled, sent, nextSub, histVars>>

\* variant: the sender is overwritten before the bus is looked at
SendCallStampFirst(t, a, n) ==
    /\ th[t].pc = "idle"
    /\ heap[n].type # "none"
    /\ Len(sent) < MaxSends
    /\ LET l == [IdleLoc EXCEPT !.msg = NewMessage(n, heap[n].type), !.agent = a,
                               !.prior = heap[n].sender] IN
        /\ heap' = [heap EXCEPT ![n].sender = agent[a].agent_id]
        /\ IF ~agent[a].event_bus
           THEN th' = [th EXCEPT ![t] = Result("send_message", "None", l)]
           ELSE Goto(t, [l EXCEPT !.pc = "send_publish"])
    /\ UNCHANGED <<subscribers, message_history, poolVars, envVars, recVars, now, nextUuid, objs, dicts,
                   last, agent, handled, sent, countVars, histVars>>

\* variant: a sender the producer has set is kept
StampIfUnset(given, agent_id) == IF given = None THEN agent_id ELSE given

\* send_message, line 81: message.sender = self.agent_id
Stamp(given, agent_id) == agent_id

\* send_message(message) of agent a with the Message object n, lines 77-81:
\* nothing is done without a bus, else the sender is overwritten
SendCall(t, a, n) ==
    /\ th[t].pc = "idle"
    /\ heap[n].type # "none"
    /\ Len(sent) < MaxSends
    /\ LET l == [IdleLoc EXCEPT !.msg = NewMessage(n, heap[n].type), !.agent = a,
                               !.prior = heap[n].sender] IN
        IF ~agent[a].event_bus
        THEN /\ th' = [th EXCEPT ![t] = Result("send_message", "None", l)]
             /\ UNCHANGED heap
        ELSE /\ heap' = [heap EXCEPT ![n].sender = Stamp(@, agent[a].agent_id)]
             /\ Goto(t, [l EXCEPT !.pc = "send_publish"])
    /\ UNCHANGED <<subscribers, message_history, poolVars, envVars, recVars, now, nextUuid, objs, dicts,
                   last, agent, handled, sent, countVars, histVars>>

\* send_message, line 82: self.event_bus.publish(message), up to the test of
\* the history length (line 110)
SendPublish(t) ==
    /\ th[t].pc = "send_publish"
    /\ sent' = Append(sent, [agent |-> th[t].agent, msg |-> th[t].msg.id,
                             sender |-> heap[th[t].msg.id].sender, prior |-> th[t].prior,
                             registered |-> {a \in Agents : agent[a].event_bus}])
    /\ Goto(t, [th[t] EXCEPT !.pc = IF Full(message_history, max_history_size)
                                    THEN "pub_pop" ELSE "pub_append"])
    /\ UNCHANGED <<subscribers, message_history, poolVars, envVars, recVars, now, nextUuid, objs, dicts,
                   last, agent, heap, handled, countVars, histVars>>

\* ------------------------------------------------------------ transcriber
\* len(self.current_recording["audio_chunks"]) >= 3, line 151
ChunkThreshold == 3

\* thread t moves on inside its handler
RecGoto(t, pc) == rt' = [rt EXCEPT ![t].pc = pc]

\* the handler of thread t returns
RecReturn(t, val) == rt' = [rt EXCEPT ![t].pc = "ret", ![t].val = val]

\* the recording loop of thread t evaluates self.current_recording: the
\* history notes whether stop_recording has reset it since the loop's own
\* start_recording assigned it
LoopAccess(t) ==
    recHist' = [recHist EXCEPT !.late = @ \/ (recHist.resets > rt[t].seen)]

\* start_recording, line 110: the test of is_recording; lines 111-112: the
\* early return; lines 114-116 compute the meeting id
StartCall(t) ==
    /\ rt[t].pc = "idle"
    /\ IF is_recording
       THEN rt' = [rt EXCEPT ![t] = [RecIdle EXCEPT !.pc = "ret", !.op = "start_recording",
                                                   !.val = "Already recording"]]
       ELSE /\ recHist.begun < MaxRecordings
            /\ rt' = [rt EXCEPT ![t] = [RecIdle EXCEPT !.pc = "start_flag",
                                                       !.op = "start_recording"]]
    /\ UNCHANGED <<is_recording, current_recording, recHist>>

\* start_recording, line 119: self.is_recording = True
StartFlag(t) ==
    /\ rt[t].pc = "start_flag"
    /\ is_recording' = TRUE
    /\ RecGoto(t, "start_cur")
    /\ UNCHANGED <<current_recording, recHist>>

\* start_recording, lines 120-125: self.current_recording = {...}
StartCurrent(t) ==
    /\ rt[t].pc = "start_cur"
    /\ current_recording' = [set |-> TRUE, meeting |-> recHist.begun + 1,
                             audio_chunks |-> 0, audio_file |-> FALSE]
    /\ recHist' = [recHist EXCEPT !.begun = @ + 1]
    /\ rt' = [rt EXCEPT ![t].pc = "rec_setup", ![t].seen = recHist.resets]
    /\ UNCHANGED is_recording

\* _record_audio, lines 135-136: sr.Microphone(...) and the noise
\* adjustment succeed, or raise and lines 159-161 set is_recording = False
RecSetup(t, fails) ==
    /\ rt[t].pc = "rec_setup"
    /\ IF fails
       THEN /\ is_recording' = FALSE
            /\ RecReturn(t, "setup failed")
       ELSE /\ RecGoto(t, "rec_test")
            /\ UNCHANGED is_recording
    /\ UNCHANGED <<current_recording, recHist>>

\* _record_audio, line 138: while self.is_recording
RecTest(t) ==
    /\ rt[t].pc = "rec_test"
    /\ IF is_recording THEN RecGoto(t, "rec_listen") ELSE RecReturn(t, "None")
    /\ UNCHANGED <<is_recording, current_recording, recHist>>

\* _record_audio, lines 141-145: recognizer.listen returns a chunk, or
\* raises (WaitTimeoutError, line 154, or another exception, line 156) and
\* the loop goes round
RecListen(t, heard) ==
    /\ rt[t].pc = "rec_listen"
    /\ heard => current_recording.audio_chunks < MaxChunks
    /\ RecGoto(t, IF heard THEN "rec_store" ELSE "rec_test")
    /\ UNCHANGED <<is_recording, current_recording, recHist>>

\* _record_audio, line 148: self.current_recording["audio_chunks"].append;
\* on None the subscript raises TypeError, which line 156 catches
RecStore(t) ==
    /\ rt[t].pc = "rec_store"
    /\ LoopAccess(t)
    /\ IF current_recording.set
       THEN /\ current_recording' = [current_recording EXCEPT !.audio_chunks = @ + 1]
            /\ RecGoto(t, "rec_len")
       ELSE /\ rt' = [rt EXCEPT ![t].pc = "rec_test", ![t].val = "TypeError"]
            /\ UNCHANGED current_recording
    /\ UNCHANGED is_recording

\* _record_audio, lines 151-152: the length test, and on three chunks or
\* more _process_recording_chunk (lines 169-178), which reads the meeting
\* id, the chunks and the start time of self.current_recording
RecLen(t) ==
    /\ rt[t].pc = "rec_len"
    /\ LoopAccess(t)
    /\ IF ~current_recording.set
       THEN rt' = [rt EXCEPT ![t].pc = "rec_test", ![t].val = "TypeError"]
       ELSE IF current_recording.audio_chunks >= ChunkThreshold
            THEN RecGoto(t, "rec_chunk")
            ELSE RecGoto(t, "rec_test")
    /\ UNCHANGED <<is_recording, current_recording>>

\* _process_recording_chunk, lines 169-178
RecChunk(t) ==
    /\ rt[t].pc = "rec_chunk"
    /\ LoopAccess(t)
    /\ IF ~current_recording.set
       THEN rt' = [rt EXCEPT ![t].pc = "rec_test", ![t].val = "TypeError"]
       ELSE RecGoto(t, "rec_test")
    /\ UNCHANGED <<is_recording, current_recording>>

\* stop_recording, line 187: the test of is_recording; lines 188-189: the
\* early return
StopCall(t) ==
    /\ rt[t].pc = "idle"
    /\ IF ~is_recording
       THEN rt' = [rt EXCEPT ![t] = [RecIdle EXCEPT !.pc = "ret", !.op = "stop_recording",
                                                   !.val = "Not currently recording"]]
       ELSE rt' = [rt EXCEPT ![t] = [RecIdle EXCEPT !.pc = "stop_flag",
                                                   !.op = "stop_recording"]]
    /\ UNCHANGED <<is_recording, current_recording, recHist>>

\* stop_recording, line 192: self.is_recording = False
StopFlag(t) ==
    /\ rt[t].pc = "stop_flag"
    /\ is_recording' = FALSE
    /\ RecGoto(t, "stop_save")
    /\ UNCHANGED <<current_recording, recHist>>

\* stop_recording, line 195: if self.current_recording and its chunks
StopSave(t) ==
    /\ rt[t].pc = "stop_save"
    /\ IF current_recording.set /\ current_recording.audio_chunks > 0
       THEN RecGoto(t, "stop_file")
       ELSE RecGoto(t, "stop_reset")
    /\ UNCHANGED <<is_recording, current_recording, recHist>>

\* stop_recording, lines 196-223: the file name is stored in
\* self.current_recording and the chunks are written out; an exception,
\* the TypeError of a subscript on None included, is caught at line 222
StopFile(t) ==
    /\ rt[t].pc = "stop_file"
    /\ IF current_recording.set
       THEN /\ current_recording' = [current_recording EXCEPT !.audio_file = TRUE]
            /\ RecGoto(t, "stop_reset")
       ELSE /\ rt' = [rt EXCEPT ![t].pc = "stop_reset", ![t].val = "TypeError"]
            /\ UNCHANGED current_recording
    /\ UNCHANGED <<is_recording, recHist>>

\* stop_recording, line 226: self.current_recording = None
StopReset(t) ==
    /\ rt[t].pc = "stop_reset"
    /\ current_recording' = NoRecording
    /\ recHist' = [recHist EXCEPT !.resets = @ + 1]
    /\ RecReturn(t, "None")
    /\ UNCHANGED is_recording

\* the worker thread is free for the next command
RecResume(t) ==
    /\ rt[t].pc = "ret"
    /\ rt' = [rt EXCEPT ![t] = RecIdle]
    /\ UNCHANGED <<is_recording, current_recording, recHist>>

\* a step of a worker thread in a handler of the transcriber
RecStep(t) ==
    /\ \/ StartCall(t) \/ StartFlag(t) \/ StartCurrent(t)
       \/ \E fails \in BOOLEAN : RecSetup(t, fails)
       \/ RecTest(t)
       \/ \E heard \in BOOLEAN : RecListen(t, heard)
       \/ RecStore(t) \/ RecLen(t) \/ RecChunk(t)
       \/ StopCall(t) \/ StopFlag(t) \/ StopSave(t) \/ StopFile(t) \/ StopReset(t)
       \/ RecResume(t)
    /\ UNCHANGED <<subscribers, message_history, poolVars, th, envVars, countVars,
                   histVars, msgVars>>

\* ---------------------------------------------------------------- Message
\* the fields of the dataclass with their defaults (lines 57-76): timestamp
\* from time.time(), message_id from uuid4().  via and origin record how the
\* object came to be.
Fields(type, content, metadata) ==
    [type |-> type, type_name |-> NoKey, content |-> content, sender |-> None,
     recipient |-> None, timestamp |-> now, message_id |-> nextUuid, parent_id |-> None,
     context_id |-> None, thread_id |-> None, priority |-> 0, ttl |-> None,
     metadata |-> metadata, via |-> "construct", origin |-> 0]

\* variant: every string is taken for the name of a member
AnyName(a) == a.form = "name"

\* MessageType[name] succeeds
RecognizedName(a) == a.form = "name" /\ a.kind \in MessageType

\* __post_init__: a member is kept, a name is converted to its member,
\* anything else raises ValueError
PostInit(m) ==
    IF m.type.form = "member"
    THEN [ok |-> TRUE, msg |-> [m EXCEPT !.type_name = NameKey(m.type.kind)]]
    ELSE IF RecognizedName(m.type)
         THEN [ok |-> TRUE, msg |-> [m EXCEPT !.type = MemberKey(m.type.kind),
                                              !.type_name = NameKey(m.type.kind)]]
         ELSE [ok |-> FALSE, msg |-> m]

\* dict(d) followed by .update(u)
Merge(d, u) == [k \in (DOMAIN d) \cup (DOMAIN u) |-> IF k \in DOMAIN u THEN u[k] ELSE d[k]]

\* data.get(k, default)
Get(data, k, default) == IF k \in DOMAIN data THEN data[k] ELSE default

\* Message(type, content, ...) called by user code, with every optional
\* field given (full) or none
Construct(typeArg, payload, full) ==
    /\ Len(objs) < MaxObjs
    /\ FirstType(typeArg)
    /\ LET base == Fields(typeArg, Len(dicts) + 1, Len(dicts) + 2)
           m == IF full
                THEN [base EXCEPT !.sender = Some("agentA"), !.recipient = Some("agentB"),
                                  !.parent_id = Some(0), !.context_id = Some("ctx"),
                                  !.thread_id = Some("thr"), !.priority = 1, !.ttl = Some(1)]
                ELSE base
           r == PostInit(m)
           res == [NoOp EXCEPT !.op = "construct", !.arg = typeArg, !.payload = payload,
                               !.at = now, !.preObjs = objs, !.preDicts = dicts] IN
        IF r.ok
        THEN /\ objs' = Append(objs, r.msg)
             /\ dicts' = dicts \o <<payload, IF full THEN ("a" :> 1) ELSE <<>> >>
             /\ nextUuid' = nextUuid + 1
             /\ last' = [res EXCEPT !.val = "ok", !.dst = Len(objs) + 1]
        ELSE /\ last' = [res EXCEPT !.val = "ValueError"]
             /\ UNCHANGED <<objs, dicts, nextUuid>>
    /\ UNCHANGED <<now, busVars>>

\* variant: expired from the moment the time-to-live is reached
ExpiredAt(elapsed, ttl) == elapsed >= ttl

\* is_expired, line 101: (current_time - self.timestamp) > self.ttl
Expired(elapsed, ttl) == elapsed > ttl

\* is_expired
IsExpired(o) ==
    /\ o \in 1..Len(objs)
    /\ LET self == objs[o]
           r == IF self.ttl = None THEN FALSE ELSE Expired(now - self.timestamp, self.ttl[1]) IN
        last' = [NoOp EXCEPT !.op = "is_expired", !.src = o, !.at = now,
                             !.val = IF r THEN "True" ELSE "False"]
    /\ UNCHANGED <<now, nextUuid, objs, dicts, busVars>>

\* the clock advances
Tick ==
    /\ now < MaxTime
    /\ now' = now + 1
    /\ UNCHANGED <<nextUuid, objs, dicts, last, busVars>>

\* lines 120-131, 144-154: message_id is not passed, the default factory runs
DerivedIdFresh(self) == nextUuid

\* variant: with_content updates self.content in place
ContentOfCopy(self) == self.content

\* with_content, line 114: new_content = dict(self.content), a new dict object
ContentCopy(self) == Len(dicts) + 1

\* variant: the derived message shares the metadata dict of its origin
MetadataOfCopy(self) == self.metadata

\* lines 130, 153: metadata=dict(self.metadata), a new dict object
MetadataCopy(self) == Len(dicts) + 2

\* with_content(**kwargs)
WithContent(o, kwargs) ==
    /\ o \in 1..Len(objs)
    /\ Len(objs) < MaxObjs
    /\ LET self == objs[o]
           c == ContentCopy(self)
           m == [Fields(self.type, c, MetadataCopy(self)) EXCEPT
                    !.sender = self.sender, !.recipient = self.recipient,
                    !.message_id = DerivedIdFresh(self),
                    !.parent_id = Some(self.message_id), !.context_id = self.context_id,
                    !.thread_id = self.thread_id, !.priority = self.priority,
                    !.ttl = self.ttl, !.via = "with_content", !.origin = o]
           grown == dicts \o << dicts[self.content], dicts[self.metadata] >> IN
        /\ objs' = Append(objs, PostInit(m).msg)
        /\ dicts' = [grown EXCEPT ![c] = Merge(@, kwargs)]
        /\ last' = [NoOp EXCEPT !.op = "with_content", !.val = "ok", !.src = o,
                                !.dst = Len(objs) + 1, !.upd = kwargs, !.at = now,
                                !.preObjs = objs, !.preDicts = dicts]
    /\ nextUuid' = nextUuid + 1
    /\ UNCHANGED <<now, busVars>>

\* variant: the reply keeps the direction of the original
ReplyRouteKept(self) == [sender |-> self.sender, recipient |-> self.recipient]

\* create_reply, lines 147-148: sender=self.recipient, recipient=self.sender
ReplyRoute(self) == [sender |-> self.recipient, recipient |-> self.sender]

\* create_reply(message_type, content)
CreateReply(o, typeArg, payload) ==
    /\ o \in 1..Len(objs)
    /\ Len(objs) < MaxObjs
    /\ LET self == objs[o]
           md == MetadataCopy(self)
           m == [Fields(typeArg, Len(dicts) + 1, md) EXCEPT
                    !.sender = ReplyRoute(self).sender,
                    !.recipient = ReplyRoute(self).recipient,
                    !.message_id = DerivedIdFresh(self),
                    !.parent_id = Some(self.message_id), !.context_id = self.context_id,
                    !.thread_id = self.thread_id, !.priority = self.priority,
                    !.via = "create_reply", !.origin = o]
           r == PostInit(m)
           res == [NoOp EXCEPT !.op = "create_reply", !.src = o, !.arg = typeArg,
                               !.payload = payload, !.at = now,
                               !.preObjs = objs, !.preDicts = dicts] IN
        IF r.ok
        THEN /\ objs' = Append(objs, r.msg)
             /\ dicts' = dicts \o << payload, dicts[self.metadata] >>
             /\ nextUuid' = nextUuid + 1
             /\ last' = [res EXCEPT !.val = "ok", !.dst = Len(objs) + 1]
        ELSE /\ last' = [res EXCEPT !.val = "ValueError"]
             /\ UNCHANGED <<objs, dicts, nextUuid>>
    /\ UNCHANGED <<now, busVars>>

\* to_dict, line 165: "type": self.type_name
ToDictTypeName(m) == m.type_name

\* variant: the record leaves out the time-to-live and the routing
ToDictLean(m) ==
    [message_id |-> m.message_id, type |-> ToDictTypeName(m), content |-> m.content,
     timestamp |-> m.timestamp, parent_id |-> m.parent_id, context_id |-> m.context_id,
     thread_id |-> m.thread_id, priority |-> m.priority, metadata |-> m.metadata]

\* to_dict: the content and metadata entries are the message's own dicts
ToDict(m) ==
    [message_id |-> m.message_id, type |-> ToDictTypeName(m), content |-> m.content,
     sender |-> m.sender, recipient |-> m.recipient, timestamp |-> m.timestamp,
     parent_id |-> m.parent_id, context_id |-> m.context_id, thread_id |-> m.thread_id,
     priority |-> m.priority, ttl |-> m.ttl, metadata |-> m.metadata]

\* from_dict: data.pop("type"), the conversion of a string, then cls(...)
\* with data.get for every other field
FromDict(data) ==
    LET msg_type == data["type"]
        rest == [k \in (DOMAIN data) \ {"type"} |-> data[k]] IN
    IF msg_type.form = "name" /\ ~RecognizedName(msg_type)
    THEN [ok |-> FALSE, msg |-> NoMsg, data |-> rest]
    ELSE LET t == IF msg_type.form = "name" THEN MemberKey(msg_type.kind) ELSE msg_type
             r == PostInit(
                    [type |-> t, type_name |-> NoKey,
                     content |-> Get(rest, "content", 0),
                     sender |-> Get(rest, "sender", None),
                     recipient |-> Get(rest, "recipient", None),
                     timestamp |-> Get(rest, "timestamp", now),
                     message_id |-> Get(rest, "message_id", nextUuid),
                     parent_id |-> Get(rest, "parent_id", None),
                     context_id |-> Get(rest, "context_id", None),
                     thread_id |-> Get(rest, "thread_id", None),
                     priority |-> Get(rest, "priority", 0),
                     ttl |-> Get(rest, "ttl", None),
                     metadata |-> Get(rest, "metadata", 0),
                     via |-> "from_dict", origin |-> 0]) IN
         [ok |-> r.ok, msg |-> r.msg, data |-> rest]

\* what a record may hold as its type: the name to_dict stored, a string
\* that names no member, or something that is no string
StoredTypes(m) == {ToDictTypeName(m), NameKey("BOGUS"), NotAName}

\* Message.from_dict(data), data the record of message o with stored as its type
FromDictCall(o, stored) ==
    /\ o \in 1..Len(objs)
    /\ Len(objs) < MaxObjs
    /\ stored \in StoredTypes(objs[o])
    /\ LET data == [ToDict(objs[o]) EXCEPT !.type = stored]
           r == FromDict(data)
           res == [NoOp EXCEPT !.op = "from_dict", !.src = o, !.arg = stored,
                               !.data = r.data, !.at = now,
                               !.preObjs = objs, !.preDicts = dicts] IN
        IF r.ok
        THEN /\ objs' = Append(objs, [r.msg EXCEPT !.origin = o])
             /\ last' = [res EXCEPT !.val = "ok", !.dst = Len(objs) + 1]
        ELSE /\ last' = [res EXCEPT !.val = "ValueError"]
             /\ UNCHANGED objs
    /\ UNCHANGED <<now, nextUuid, dicts, busVars>>

\* Message.from_dict(data) once more, data the very mapping the last
\* from_dict call was given, as that call left it: data.pop("type") of line
\* 190 raises KeyError when the mapping has no such key
FromDictAgain ==
    /\ last.op = "from_dict"
    /\ Len(objs) < MaxObjs
    /\ LET data == last.data
           res == [last EXCEPT !.op = "from_dict_again", !.src = last.dst, !.dst = 0,
                               !.at = now, !.preObjs = objs, !.preDicts = dicts] IN
        IF "type" \notin DOMAIN data
        THEN /\ last' = [res EXCEPT !.val = "KeyError"]
             /\ UNCHANGED objs
        ELSE LET r == FromDict(data) IN
             IF r.ok
             THEN /\ objs' = Append(objs, [r.msg EXCEPT !.origin = last.src])
                  /\ last' = [res EXCEPT !.val = "ok", !.dst = Len(objs) + 1,
                                         !.data = r.data]
             ELSE /\ last' = [res EXCEPT !.val = "ValueError", !.data = r.data]
                  /\ UNCHANGED objs
    /\ UNCHANGED <<now, nextUuid, dicts, busVars>>

\* user code replaces a top-level key of a message's metadata:
\* message.metadata["a"] = 2
SetMetadata(o) ==
    /\ o \in 1..Len(objs)
    /\ "a" \in DOMAIN dicts[objs[o].metadata] => dicts[objs[o].metadata]["a"] # 2
    /\ dicts' = [dicts EXCEPT ![objs[o].metadata] = Merge(@, ("a" :> 2))]
    /\ last' = [NoOp EXCEPT !.op = "set_metadata", !.val = "ok", !.src = o, !.at = now,
                            !.preObjs = objs, !.preDicts = dicts]
    /\ UNCHANGED <<now, nextUuid, objs, busVars>>

\* ------------------------------------------------------------------- Next
\* a step of subscribe by caller t
SubscribeStep(t) ==
    \/ \E key \in named, cb \in Callbacks : SubscribeCall(t, key, cb)
    \/ SubscribeAppend(t)

\* a step of unsubscribe by caller t
UnsubscribeStep(t) ==
    \/ \E key \in named, sid \in SubIds \cup {UnknownId} : UnsubscribeCall(t, key, sid)
    \/ UnsubLen(t)
    \/ UnsubFetch(t)
    \/ UnsubFilter(t)
    \/ UnsubStore(t)
    \/ UnsubSuccess(t)
    \/ UnsubEmpty(t)
    \/ UnsubDel(t)

\* a step of publish(message) by caller t, message a Message
PublishStep(t) ==
    \/ \E k \in MessageType, f \in flavours :
           PublishCall(t, WithFlavour(NewMessage(nextMsg, k), f))
    \/ PubPop(t)
    \/ PubAppend(t)
    \/ PubLookup(t)
    \/ PubCount(t)
    \/ PubFetch(t)
    \/ PubLoop(t)

\* a step of shutdown by caller t
ShutdownStep(t) ==
    \/ ShutdownCall(t)
    \/ ShutdownJoin(t)
    \/ ShutdownClose(t)

\* a step of the loop or of a worker
Dispatch ==
    \/ RunLoop
    \/ LoopStep
    \/ WorkerStart
    \/ \E w \in Workers : WorkerReturn(w) \/ WorkerRaise(w) \/ WorkerBlock(w)

\* one caller, the bus open
Next ==
    \/ \E t \in callers :
        \/ SubscribeStep(t)
        \/ UnsubscribeStep(t)
        \/ PublishStep(t)
        \/ PublishCall(t, NotAMessage)
        \/ Resume(t)
    \/ Dispatch

\* one caller, with shutdown
NextLifecycle ==
    \/ \E t \in callers :
        \/ SubscribeStep(t)
        \/ PublishStep(t)
        \/ ShutdownStep(t)
        \/ Resume(t)
    \/ Dispatch
    \/ StopLoop

\* one producer, the bus open
NextHistory ==
    \/ \E t \in callers :
        \/ SubscribeStep(t)
        \/ PublishStep(t)
        \/ PublishCall(t, NotAMessage)
        \/ \E limit \in 0..MaxLimit : GetRecentMessages(t, limit)
        \/ Resume(t)
    \/ Dispatch

\* unsynchronised callers, the loop not run
NextCallers == \E t \in callers : SubscribeStep(t) \/ UnsubscribeStep(t) \/ PublishStep(t)

\* unsynchronised producers, the loop not run
NextProducers == \E t \in callers : SubscribeStep(t) \/ PublishStep(t)

\* one producer and the callbacks of its messages
NextDelivery ==
    \/ \E t \in callers :
        \/ SubscribeStep(t)
        \/ PublishStep(t)
        \/ Resume(t)
    \/ Dispatch

\* a step of an agent's register or send_message called by t
AgentStep(t) ==
    \/ \E a \in Agents : Register(t, a)
    \/ \E a \in Agents, n \in MsgIds : SendCall(t, a, n)
    \/ SendPublish(t)

\* agents that register and send, producers of their Messages, and user
\* code that subscribes an agent's process_message to a member
NextAgents ==
    \/ \E t \in callers :
        \/ AgentStep(t)
        \/ PubPop(t) \/ PubAppend(t) \/ PubLookup(t) \/ PubCount(t) \/ PubFetch(t)
        \/ PubLoop(t)
        \/ \E key \in named, a \in Agents : SubscribeCall(t, key, a)
        \/ SubscribeAppend(t)
        \/ Resume(t)
    \/ \E k \in MessageType, given \in Senders : MakeMessage(k, given)
    \/ RunLoop
    \/ LoopStep
    \/ WorkerStart
    \/ \E w \in Workers : WorkerReturn(w)

\* one caller of subscribe and unsubscribe
NextRegistry == \E t \in callers : SubscribeStep(t) \/ UnsubscribeStep(t) \/ Resume(t)

\* operations on Message values
NextMessage ==
    \/ \E typeArg \in TypeArgs, payload \in Payloads, full \in BOOLEAN :
           Construct(typeArg, payload, full)
    \/ \E o \in 1..MaxObjs, kwargs \in Updates : WithContent(o, kwargs)
    \/ \E o \in 1..MaxObjs, typeArg \in TypeArgs, payload \in Payloads :
           CreateReply(o, typeArg, payload)
    \/ \E o \in 1..MaxObjs, stored \in TypeArgs : FromDictCall(o, stored)
    \/ \E o \in 1..MaxObjs : SetMetadata(o)

\* Messages and the clock
NextClock ==
    \/ \E typeArg \in TypeArgs, payload \in Payloads, full \in BOOLEAN :
           Construct(typeArg, payload, full)
    \/ \E o \in 1..MaxObjs : IsExpired(o)
    \/ \E o \in 1..MaxObjs, stored \in TypeArgs : FromDictCall(o, stored)
    \/ Tick

\* records made by to_dict and read back, once and once more
NextRecords ==
    \/ \E typeArg \in TypeArgs, payload \in Payloads, full \in BOOLEAN :
           Construct(typeArg, payload, full)
    \/ \E o \in 1..MaxObjs, stored \in TypeArgs : FromDictCall(o, stored)
    \/ FromDictAgain

\* start_recording and stop_recording commands handled by the transcriber
NextTranscriber == \E t \in RecThreads : RecStep(t)

Spec == InitSeq /\ [][Next]_vars
SpecTranscriber == InitMessage /\ [][NextTranscriber]_vars
SpecRecords == InitMessage /\ [][NextRecords]_vars
SpecMessage == InitMessage /\ [][NextMessage]_vars
SpecClock == InitMessage /\ [][NextClock]_vars
SpecLifecycle == InitSeq /\ [][NextLifecycle]_vars
SpecDelivery == InitDelivery /\ [][NextDelivery]_vars
SpecAgents == InitAgents /\ [][NextAgents]_vars
SpecRegistry == InitRegistry /\ [][NextRegistry]_vars
SpecHistory == InitHistory /\ [][NextHistory]_vars
SpecConc == InitConc /\ [][NextCallers]_vars
SpecProducers == InitProducers /\ [][NextProducers]_vars

\* ----------------------------------------------------------------- claims
PubPcs == {"pub_pop", "pub_append", "pub_lookup", "pub_count", "pub_fetch", "pub_loop"}

\* no caller is inside a call
CallersIdle == \A t \in callers : th[t].pc \in {"idle", "ret"}

\* the loop runs and nothing is scheduled, queued or executing
Quiescent ==
    /\ CallersIdle
    /\ loop_state = "running"
    /\ loopQ = <<>>
    /\ execQ = <<>>
    /\ Busy = {}

\* publish has been called with message id m and is not in progress
Done(m) == m < nextMsg /\ \A t \in callers : ~(th[t].pc \in PubPcs /\ th[t].msg.id = m)

\* invocations of subscription s with message id m: not yet started, started
NotStarted(s, m) ==
    Cardinality({j \in 1..Len(loopQ) : loopQ[j].sub = s /\ loopQ[j].msg.id = m}) +
    Cardinality({j \in 1..Len(execQ) : execQ[j].sub = s /\ execQ[j].msg.id = m})
Started(s, m) == calls[<<s, m>>]

\* the subscriptions registered for the kind of message id m, under the
\* member or under its name, when publish looked the kind up
SubscribedAt(m) == atPublish[m].member \cup atPublish[m].name

\* publish of a Message has just returned normally to caller t
Published(t) ==
    th[t].pc = "ret" /\ th[t].op = "publish" /\ th[t].msg.isMessage /\ th[t].val = "None"

HistoryIds == [j \in 1..Len(message_history) |-> message_history[j].id]

Min(a, b) == IF a <= b THEN a ELSE b

\* the last min(k, n) of the message ids 1..k, oldest first
LastN(k, n) == [j \in 1..Min(k, n) |-> k - Min(k, n) + j]

\* C1: once nothing is left to run, every callback that was subscribed to
\* the kind of a published message when it was published has been invoked
\* with it exactly once; a callback not subscribed to its kind is never
\* invoked with it.
C1_DeliveredExactlyOnce ==
    /\ Quiescent => \A m \in MsgIds : \A s \in SubscribedAt(m) : Started(s, m) = 1
    /\ \A m \in MsgIds : \A s \in SubIds : Started(s, m) > 0 => s \in SubscribedAt(m)

\* C2: when publish of a Message has returned, every subscription stored
\* under the name of the message's kind has been scheduled for it.
C2_NameSubscriberSelected ==
    \A t \in callers : Published(t) =>
        \A s \in IdsUnder(NameKey(th[t].msg.type)) :
            NotStarted(s, th[t].msg.id) + Started(s, th[t].msg.id) > 0

\* C3: after unsubscribe of a subscription has returned True, no message
\* published later is scheduled or delivered to it, and every later
\* unsubscribe of its id returns False.
C3_RemovedStaysRemoved ==
    /\ \A s \in SubIds : \A m \in MsgIds :
           (removedAt[s] # 0 /\ m >= removedAt[s]) =>
               NotStarted(s, m) + Started(s, m) = 0
    /\ \A t \in callers :
           (th[t].pc = "ret" /\ th[t].op = "unsubscribe" /\ th[t].again) =>
               th[t].val = "False"

\* a removed subscription, a later message of its kind delivered to the
\* subscription that remains, and a second unsubscribe that returned False
C3_Witness ==
    \E t \in callers : \E s, r \in SubIds :
        /\ th[t].pc = "ret" /\ th[t].op = "unsubscribe" /\ th[t].again
        /\ th[t].sid = s /\ th[t].val = "False"
        /\ removedAt[s] = 2
        /\ atPublish[1].member = {s, r} /\ s # r
        /\ atPublish[2].member = {r}
        /\ Started(r, 2) = 1

\* C4: between publishes the history holds exactly the last min(k, N) of the
\* k messages published, oldest first, and never more than N entries.
C4_HistoryIsLastN ==
    /\ Len(message_history) <= max_history_size
    /\ (\A t \in callers : th[t].pc \notin {"pub_pop", "pub_append"}) =>
           HistoryIds = LastN(nextMsg - 1, max_history_size)

\* three messages published into a history of two: the oldest was evicted
C4_Witness ==
    /\ CallersIdle
    /\ max_history_size = 2
    /\ nextMsg = 4
    /\ HistoryIds = <<2, 3>>

\* C5: a callback that raises leaves the registry, the history, the pending
\* invocations and the callers as they are, and every invocation publish has
\* scheduled for a subscriber of the member key stays scheduled exactly once
\* until it starts.
C5_RaiseIsContained ==
    /\ [](\A m \in MsgIds : Done(m) =>
            \A s \in atPublish[m].member : NotStarted(s, m) + Started(s, m) = 1)
    /\ [][raised' # raised =>
            UNCHANGED <<subscribers, message_history, loopQ, execQ, th, loop_state,
                        executor_shutdown>>]_vars

\* a callback raised on the first message; the other subscriber was invoked
\* with that message afterwards, and the raising one with the next message
C5_Witness ==
    \E s, r \in SubIds :
        /\ s # r
        /\ <<s, 1>> \in raised
        /\ atPublish[1].member = {s, r}
        /\ Started(r, 1) = 1
        /\ Started(s, 2) = 1

\* C6: publish on an open bus never raises.
C6_PublishNeverRaises ==
    \A t \in callers : (th[t].pc = "ret" /\ th[t].op = "publish") => th[t].val = "None"

\* C7: a publish called after shutdown has returned raises, and its message
\* is not in the history.
C7_PublishAfterShutdownFails ==
    \A t \in callers :
        (th[t].pc = "ret" /\ th[t].op = "publish" /\ th[t].msg.isMessage
            /\ closedAt # 0 /\ th[t].msg.id >= closedAt) =>
        /\ th[t].val # "None"
        /\ \A j \in 1..Len(message_history) : message_history[j].id # th[t].msg.id

\* how often subscription id s occurs in the registry
Occurrences(s) ==
    LET RECURSIVE Sum(_)
        Sum(K) == IF K = {} THEN 0
                  ELSE LET k == CHOOSE k \in K : TRUE IN
                       Cardinality({j \in 1..Len(subscribers[k].items) :
                                       subscribers[k].items[j].id = s}) + Sum(K \ {k})
    IN Sum(Keys)

\* C8: when concurrent callers have all returned, the registry holds exactly
\* once every subscription that subscribe returned and unsubscribe was never
\* called with (no subscribe is lost), and holds no subscription that
\* unsubscribe was called with under its key (none reappears).
C8_RegistryExact ==
    CallersIdle =>
        \A s \in 1..(nextSub - 1) :
            Occurrences(s) = IF s \in asked THEN 0 ELSE 1

\* C9: under concurrent publishes the history never exceeds its capacity and,
\* when the producers have returned, holds min(k, N) distinct messages.
C9_HistoryBounded ==
    /\ Len(message_history) <= max_history_size
    /\ CallersIdle =>
        /\ Len(message_history) = Min(nextMsg - 1, max_history_size)
        /\ Cardinality({HistoryIds[j] : j \in 1..Len(message_history)}) = Len(message_history)

\* C10: a publish in progress can always take its next step, whatever the
\* callbacks are doing.
C10_PublishNeverWaits ==
    \A t \in callers : th[t].pc \in PubPcs => ENABLED PublishStep(t)

\* publish of the second message has returned while a callback blocks on the
\* first and none of the second message's callbacks has started
C10_Witness ==
    \E t \in callers :
        /\ Published(t)
        /\ th[t].msg.id = 2
        /\ atPublish[2].member # {}
        /\ \A s \in atPublish[2].member : Started(s, 2) = 0 /\ NotStarted(s, 2) = 1
        /\ \E w \in Workers : running[w].blocked /\ running[w].msg.id = 1

\* the ids registered under key in registry reg
IdsIn(reg, key) == {reg[key].items[j].id : j \in 1..Len(reg[key].items)}

\* C11: an unsubscribe whose id is not registered under its kind when it is
\* called (the kind has no entry, the id is unknown, or the id is registered
\* under another kind) returns False and leaves the registry as it was.
C11_NoOpUnsubscribe ==
    \A t \in callers :
        (th[t].pc = "ret" /\ th[t].op = "unsubscribe"
            /\ th[t].sid \notin IdsIn(th[t].before, th[t].key)) =>
        /\ th[t].val = "False"
        /\ subscribers = th[t].before

\* unsubscribe of an id registered under one kind was called with another
\* kind that has a subscription of its own, and has returned False
C11_Witness ==
    \E t \in callers : \E k \in Keys :
        /\ th[t].pc = "ret" /\ th[t].op = "unsubscribe" /\ th[t].val = "False"
        /\ k # th[t].key
        /\ th[t].sid \in IdsIn(th[t].before, k)
        /\ IdsIn(th[t].before, th[t].key) # {}

\* C12: get_recent_messages(limit) returns the last min(limit, length)
\* entries of the history, oldest first, for every limit >= 0.
C12_RecentIsLastLimit ==
    \A t \in callers :
        (th[t].pc = "ret" /\ th[t].op = "get_recent_messages") =>
            LET len == Len(message_history)
                k == Min(th[t].limit, len) IN
            /\ Len(th[t].out) <= th[t].limit
            /\ th[t].out = SubSeq(message_history, len - k + 1, len)

\* the ids publish of caller t has scheduled in its loop so far
ScheduledBy(t) == {Deref(t)[j].id : j \in 1..(th[t].i - 1)}

\* C19: publish delivers to the subscriptions that were in the list when it
\* began to iterate: a concurrent subscribe adds none, a concurrent
\* unsubscribe removes none.
C19_SnapshotAtLookup ==
    \A t \in callers : th[t].pc = "pub_loop" =>
        /\ ScheduledBy(t) \subseteq th[t].snap
        /\ th[t].i > Len(Deref(t)) => ScheduledBy(t) = th[t].snap

\* C20: when the callers have returned, no kind is mapped to an empty list
\* and no subscription id occurs twice in the registry.
C20_RegistryWellFormed ==
    CallersIdle =>
        /\ \A k \in Keys : subscribers[k].present => subscribers[k].items # <<>>
        /\ \A s \in SubIds : Occurrences(s) <= 1

\* the messages with_content and create_reply made
Derived == {"with_content", "create_reply"}

\* every optional field of m is set
AllSet(m) ==
    /\ m.sender # None /\ m.recipient # None /\ m.parent_id # None
    /\ m.context_id # None /\ m.thread_id # None /\ m.ttl # None
    /\ dicts[m.metadata] # <<>>

\* C13: from_dict(to_dict(m)) succeeds and the Message it returns equals m
\* on every field: message id, kind, payload, sender, recipient, timestamp,
\* parent, context and thread ids, priority, time-to-live and metadata,
\* whether the optional fields of m are set or absent.
C13_RoundTrip ==
    (last.op = "from_dict" /\ last.arg = ToDictTypeName(objs[last.src])) =>
        /\ last.val = "ok"
        /\ LET m == objs[last.src]
               n == objs[last.dst] IN
            /\ n.message_id = m.message_id
            /\ n.type = m.type
            /\ n.type_name = m.type_name
            /\ dicts[n.content] = dicts[m.content]
            /\ n.sender = m.sender
            /\ n.recipient = m.recipient
            /\ n.timestamp = m.timestamp
            /\ n.parent_id = m.parent_id
            /\ n.context_id = m.context_id
            /\ n.thread_id = m.thread_id
            /\ n.priority = m.priority
            /\ n.ttl = m.ttl
            /\ dicts[n.metadata] = dicts[m.metadata]

\* a message with every optional field set, made before the clock
\* advanced, has gone through to_dict and from_dict
C13_Witness ==
    /\ last.op = "from_dict"
    /\ last.val = "ok"
    /\ last.arg = ToDictTypeName(objs[last.src])
    /\ AllSet(objs[last.src])
    /\ objs[last.src].timestamp < now
    /\ dicts[objs[last.src].content] # <<>>

\* C14: a construction (by the caller, by from_dict or by create_reply) with
\* a kind that is a member or the name of a member succeeds and the
\* message's kind is the member; with any other kind it fails with
\* ValueError and no Message comes to exist.
C14_KindValidated ==
    last.op \in {"construct", "from_dict", "create_reply"} =>
        IF last.arg.form \in {"member", "name"} /\ last.arg.kind \in MessageType
        THEN /\ last.val = "ok"
             /\ Len(objs) = Len(last.preObjs) + 1
             /\ objs[last.dst].type = MemberKey(last.arg.kind)
        ELSE /\ last.val = "ValueError"
             /\ objs = last.preObjs
             /\ dicts = last.preDicts

\* from_dict has refused a record whose type names no member
C14_Witness ==
    /\ last.op = "from_dict"
    /\ last.arg = NameKey("BOGUS")
    /\ last.val = "ValueError"
    /\ objs # <<>>

\* C15: is_expired() is False when the time-to-live is unset, and otherwise
\* True exactly when now - timestamp is strictly greater than the
\* time-to-live.
C15_ExpiredStrictly ==
    last.op = "is_expired" =>
        LET m == objs[last.src] IN
        last.val = (IF m.ttl # None /\ last.at - m.timestamp > m.ttl[1]
                    THEN "True" ELSE "False")

\* is_expired was asked exactly when the time-to-live had elapsed
C15_Witness ==
    /\ last.op = "is_expired"
    /\ objs[last.src].ttl # None
    /\ last.at - objs[last.src].timestamp = objs[last.src].ttl[1]
    /\ last.val = "False"

\* C16: with_content(updates) returns a new Message whose payload is the
\* original's with the updates merged in (an update overrides, the other
\* keys keep their value) and whose parent_id is the original's id, and every
\* field of the original, its payload included, is as it was.
C16_WithContentMerges ==
    last.op = "with_content" =>
        LET o == last.preObjs[last.src]
            old == last.preDicts[o.content]
            new == dicts[objs[last.dst].content] IN
        /\ last.val = "ok"
        /\ last.dst = Len(last.preObjs) + 1
        /\ DOMAIN new = (DOMAIN old) \cup (DOMAIN last.upd)
        /\ \A k \in DOMAIN new :
               new[k] = IF k \in DOMAIN last.upd THEN last.upd[k] ELSE old[k]
        /\ objs[last.dst].parent_id = Some(o.message_id)
        /\ objs[last.src] = o
        /\ dicts[o.content] = old
        /\ dicts[o.metadata] = last.preDicts[o.metadata]

\* with_content(a=1) on the payload {a: 0, b: 2}
C16_Witness ==
    /\ last.op = "with_content"
    /\ last.upd = ("a" :> 1)
    /\ dicts[objs[last.src].content] = ("a" :> 0 @@ "b" :> 2)
    /\ dicts[objs[last.dst].content] = ("a" :> 1 @@ "b" :> 2)

\* C17: create_reply(kind, payload) returns a Message whose sender is the
\* original's recipient, whose recipient is the original's sender, whose
\* parent_id is the original's id, and whose kind and payload are the
\* ones given.
C17_ReplyReverses ==
    (last.op = "create_reply" /\ last.val = "ok") =>
        LET o == objs[last.src]
            r == objs[last.dst] IN
        /\ r.sender = o.recipient
        /\ r.recipient = o.sender
        /\ r.parent_id = Some(o.message_id)
        /\ r.type = MemberKey(last.arg.kind)
        /\ dicts[r.content] = last.payload

\* a reply to a message that has a sender and a recipient
C17_Witness ==
    /\ last.op = "create_reply"
    /\ last.val = "ok"
    /\ objs[last.src].sender = Some("agentA")
    /\ objs[last.src].recipient = Some("agentB")
    /\ objs[last.dst].sender = Some("agentB")
    /\ last.payload # <<>>

\* C18: a message derived by with_content or create_reply has an id no
\* earlier message has, and the context_id, thread_id and priority of its
\* origin and an equal metadata mapping; replacing a top-level metadata key
\* on a derived message leaves the metadata of its origin as it was.
C18_DerivedFreshAndSeparate ==
    /\ (last.op \in Derived /\ last.val = "ok") =>
           LET o == objs[last.src]
               d == objs[last.dst] IN
           /\ \A i \in 1..Len(last.preObjs) : last.preObjs[i].message_id # d.message_id
           /\ d.context_id = o.context_id
           /\ d.thread_id = o.thread_id
           /\ d.priority = o.priority
           /\ dicts[d.metadata] = dicts[o.metadata]
    /\ (last.op = "set_metadata" /\ objs[last.src].via \in Derived) =>
           LET o == objs[objs[last.src].origin] IN
           dicts[o.metadata] = last.preDicts[o.metadata]

\* a top-level metadata key was replaced on a message derived from one that
\* has metadata and the optional fields set
C18_Witness ==
    /\ last.op = "set_metadata"
    /\ objs[last.src].via \in Derived
    /\ AllSet(objs[objs[last.src].origin])
    /\ dicts[objs[last.src].metadata] = ("a" :> 2)
    /\ dicts[objs[objs[last.src].origin].metadata] = ("a" :> 1)

\* lst without its j-th entry
RemoveAt(lst, j) == SubSeq(lst, 1, j - 1) \o SubSeq(lst, j + 1, Len(lst))

\* reg and the registry agree on every kind but key
SameButFor(reg, key) == \A k \in Keys \ {key} : subscribers[k] = reg[k]

\* C21: when unsubscribe(kind, id) has returned True the kind's list is the
\* list as it was with the one entry of that id taken out, and when
\* subscribe has returned it is the list as it was with the new entry at the
\* end; every other kind is as it was.
C21_FrameOfRegistryCalls ==
    \A t \in callers :
        LET old == th[t].before[th[t].key].items
            cur == subscribers[th[t].key].items IN
        /\ (th[t].pc = "ret" /\ th[t].op = "unsubscribe" /\ th[t].val = "True") =>
               /\ SameButFor(th[t].before, th[t].key)
               /\ \E j \in 1..Len(old) : old[j].id = th[t].sid /\ cur = RemoveAt(old, j)
        /\ (th[t].pc = "ret" /\ th[t].op = "subscribe") =>
               /\ SameButFor(th[t].before, th[t].key)
               /\ cur = Append(old, [id |-> th[t].sid, cb |-> th[t].cb])

\* the first of three subscriptions of one kind was removed; the two that
\* remain have different callbacks
C21_Witness ==
    \E t \in callers :
        /\ th[t].pc = "ret" /\ th[t].op = "unsubscribe" /\ th[t].val = "True"
        /\ Len(th[t].before[th[t].key].items) = 3
        /\ th[t].before[th[t].key].items[1].id = th[t].sid
        /\ Len(subscribers[th[t].key].items) = 2
        /\ subscribers[th[t].key].items[1].cb # subscribers[th[t].key].items[2].cb

\* the invocations not yet started, in the order they are or will be
\* submitted to the executor: those submitted, then those scheduled on the loop
Submissions == execQ \o loopQ

Recorded(t) ==
    \/ th[t].pc \in {"pub_lookup", "pub_count", "pub_fetch", "pub_loop"}
    \/ th[t].pc = "ret" /\ th[t].op = "publish" /\ th[t].msg.isMessage
                        /\ th[t].val # "IndexError"

\* C23: the history holds the last min(k, N) of the k Messages publish was
\* called with, in the order of the calls, whatever their kind, priority
\* and expiry; a message is the newest entry from the moment publish has
\* recorded it; and no step but the recording of publish changes the
\* history, so a callback that fails or completes before an earlier one
\* takes nothing out of it.
C23_RecordedAtPublish ==
    /\ []((\A t \in callers : th[t].pc \notin {"pub_pop", "pub_append"}) =>
              HistoryIds = LastN(nextMsg - 1, max_history_size))
    /\ [](\A t \in callers : (Recorded(t) /\ max_history_size > 0) =>
              message_history[Len(message_history)] = th[t].msg)
    /\ [][message_history' # message_history =>
              \E t \in callers : th[t].pc \in {"pub_pop", "pub_append"}]_vars

\* the callback has failed on the second message, urgent and expired, while
\* it still runs on the first; both are in the history in publish order
C23_Witness ==
    /\ HistoryIds = <<1, 2>>
    /\ message_history[2].priority = 1 /\ message_history[2].expired
    /\ \E s \in SubIds :
           /\ <<s, 2>> \in raised
           /\ \E w \in Workers : running[w].sub = s /\ running[w].msg.id = 1

\* C25: never more callbacks execute at once than max_workers, and an
\* invocation queued in the executor stays queued, in its place, until a
\* worker starts it.
C25_BoundedWorkers ==
    /\ [](Cardinality(Busy) <= max_workers)
    /\ [][\/ execQ' = execQ
          \/ \E j \in 1..Len(loopQ) : execQ' = Append(execQ, loopQ[j])
          \/ /\ execQ # <<>>
             /\ execQ' = Tail(execQ)
             /\ \E w \in Workers : running[w] = NoItem /\ running'[w] = Head(execQ)]_vars

\* every worker is busy with the second invocation of a message, after the
\* first has finished, while a third invocation waits
C25_Witness ==
    /\ Cardinality(Busy) = max_workers
    /\ execQ # <<>>
    /\ \E w \in Workers : running[w].sub = 2 /\ Started(1, running[w].msg.id) = 1

\* the entries of the list of key in registry reg
EntriesIn(reg, key) == {reg[key].items[j] : j \in 1..Len(reg[key].items)}

Joining == \E t \in callers : th[t].pc = "sd_join"

\* C26: from the moment shutdown has joined the workers, whether it then
\* returns or raises, no callback is executing and none is queued; a
\* callback starts only before the executor is shut down or while shutdown
\* waits for the workers.
C26_ShutdownDrains ==
    /\ []((executor_shutdown /\ ~Joining) => (Busy = {} /\ execQ = <<>>))
    /\ [][calls' # calls => (~executor_shutdown \/ Joining)]_vars

\* shutdown has returned; of the two invocations of a message published
\* before it, one had started and the other never will
C26_Witness ==
    /\ closedAt = 2
    /\ CallersIdle
    /\ \E s, r \in atPublish[1].member :
           /\ Started(s, 1) = 1
           /\ Started(r, 1) = 0 /\ NotStarted(r, 1) = 0

\* C27: every message that send_message of an agent hands to publish has
\* that agent's id as its sender at that moment, whatever the producer had
\* put there.
C27_SenderIsTheSendingAgent ==
    /\ \A j \in 1..Len(sent) : sent[j].sender = agent[sent[j].agent].agent_id
    /\ \A j \in 1..Len(sent) : sent[j].sender = Some(sent[j].agent)
    /\ \A t \in callers : th[t].pc = "send_publish" =>
           heap[th[t].msg.id].sender = Some(th[t].agent)

\* an agent has sent a message in which the producer had named the other agent
C27_Witness ==
    \E j \in 1..Len(sent) : \E b \in Agents :
        /\ b # sent[j].agent
        /\ sent[j].prior = Some(b)
        /\ sent[j].sender = Some(sent[j].agent)

\* C28: no step changes a field of a Message object that is in the history.
C28_AcceptedIsFrozen ==
    [][\A j \in 1..Len(message_history) :
           heap'[message_history[j].id] = heap[message_history[j].id]]_vars

\* C29: handle_message is never called with a message whose sender is the
\* agent's own id, and once nothing is left to run, every message sent while
\* an agent was registered, with a sender other than that agent, has been
\* handled by it (every agent subscribes to every kind of the model).
C29_HandlesAllButItsOwn ==
    /\ \A h \in handled : h.sender # Some(h.agent)
    /\ Quiescent =>
           \A j \in 1..Len(sent) : \A b \in sent[j].registered :
               sent[j].sender # Some(b) =>
                   \E h \in handled : h.agent = b /\ h.msg = sent[j].msg

\* C30: a send_message call on an agent that has no bus returns None and
\* changes neither the message nor the bus.
C30_UnregisteredSendDoesNothing ==
    [][\A t \in callers :
           (/\ th[t].pc = "idle"
            /\ th'[t].pc \in {"ret", "send_publish"}
            /\ th'[t].op # "register"
            /\ th'[t].agent \in Agents
            /\ ~agent[th'[t].agent].event_bus) =>
               /\ th'[t].pc = "ret" /\ th'[t].op = "send_message" /\ th'[t].val = "None"
               /\ UNCHANGED <<heap, subscribers, message_history, poolVars, agent, sent,
                              handled>>]_vars

\* send_message of an agent without a bus has returned, next to an agent that
\* has one, and the message still names the sender its producer gave it
C30_Witness ==
    \E t \in callers :
        /\ th[t].pc = "ret" /\ th[t].op = "send_message" /\ th[t].val = "None"
        /\ ~agent[th[t].agent].event_bus
        /\ \E b \in Agents : agent[b].event_bus
        /\ th[t].prior # None
        /\ heap[th[t].msg.id].sender = th[t].prior
        /\ sent = <<>>

\* C31: from_dict leaves the mapping passed to it as it was, the type entry
\* included, and a second from_dict of the same mapping succeeds whenever
\* the first did and returns a Message equal to the first on every field.
C31_RecordUntouched ==
    /\ last.op = "from_dict" =>
           /\ "type" \in DOMAIN last.data
           /\ last.data = [ToDict(objs[last.src]) EXCEPT !.type = last.arg]
    /\ (last.op = "from_dict_again" /\ last.src # 0) =>
           /\ last.val = "ok"
           /\ LET m == objs[last.src]
                  n == objs[last.dst] IN
               /\ n.message_id = m.message_id
               /\ n.type = m.type
               /\ dicts[n.content] = dicts[m.content]
               /\ n.sender = m.sender
               /\ n.recipient = m.recipient
               /\ n.timestamp = m.timestamp
               /\ n.parent_id = m.parent_id
               /\ n.context_id = m.context_id
               /\ n.thread_id = m.thread_id
               /\ n.priority = m.priority
               /\ n.ttl = m.ttl
               /\ dicts[n.metadata] = dicts[m.metadata]

\* a start_recording that finds a recording under way and a stop_recording
\* that finds none return at once and leave both fields as they were
IgnoredCommands ==
    \A t \in RecThreads :
        (/\ rt[t].pc = "idle" /\ rt'[t].pc # "idle"
         /\ \/ rt'[t].op = "start_recording" /\ is_recording
            \/ rt'[t].op = "stop_recording" /\ ~is_recording) =>
            /\ rt'[t].pc = "ret"
            /\ UNCHANGED <<is_recording, current_recording>>

\* C32: a start_recording command while recording and a stop_recording
\* command while not recording change no state; in every reachable state
\* is_recording is true only if current_recording is set; and the recording
\* loop never evaluates current_recording after stop_recording has reset it.
C32_RecordingStateMachine ==
    /\ [][IgnoredCommands]_vars
    /\ [](is_recording => current_recording.set)
    /\ [](~recHist.late)

====
